---- MODULE Spec2Model ----
(***************************************************************************)
(* IntelliSearch: the tool-argument reconciler (backend/tool_hash.py) and  *)
(* the round-based orchestration loop of the MCP agents                    *)
(* (agents/mcp_agent.py, agents/mcp_agent_async.py,                        *)
(* services/web_service.py).                                               *)
(*                                                                         *)
(* Text is a sequence of one-character strings, a Python dict is the       *)
(* sequence of its <<key, value>> items in insertion order.                *)
(***************************************************************************)
EXTENDS Integers, Sequences, FiniteSets, TLC

(***************************************************************************)
(* Generic helpers.                                                        *)
(***************************************************************************)
Range(s) == {s[i] : i \in DOMAIN s}

Min(S) == CHOOSE x \in S : \A y \in S : x <= y

\* dict.keys(): the keys of a dict, in insertion order.
DictKeys(d) == [i \in DOMAIN d |-> d[i][1]]

\* key in dict
HasKey(d, k) == \E i \in DOMAIN d : d[i][1] = k

\* dict[key], for a key the dict holds
DictGet(d, k) == d[CHOOSE i \in DOMAIN d : d[i][1] = k][2]

(***************************************************************************)
(* difflib.SequenceMatcher(None, a, b).ratio(), as get_similarity uses it. *)
(* Indices are 0-based and intervals half-open, as in difflib.             *)
(***************************************************************************)
\* length of the common run of a[i:ahi] and b[j:bhi]
RECURSIVE CommonRun(_, _, _, _, _, _)
CommonRun(a, b, i, ahi, j, bhi) ==
    IF i < ahi /\ j < bhi /\ a[i + 1] = b[j + 1]
    THEN 1 + CommonRun(a, b, i + 1, ahi, j + 1, bhi)
    ELSE 0

\* of two blocks starting at p and q and running n and m: p's is longer, or as
\* long and earlier in a, or as long, as early in a and no later in b
BetterBlock(p, n, q, m) ==
    \/ n > m
    \/ /\ n = m
       /\ \/ p[1] < q[1]
          \/ p[1] = q[1] /\ p[2] <= q[2]

\* the block find_longest_match returns, given the places where a and b agree
BestBlock(a, b, ahi, bhi, cand) ==
    CHOOSE p \in cand :
        \A q \in cand : BetterBlock(p, CommonRun(a, b, p[1], ahi, p[2], bhi),
                                    q, CommonRun(a, b, q[1], ahi, q[2], bhi))

BlockAt(a, b, ahi, bhi, best) ==
    [i |-> best[1], j |-> best[2], size |-> CommonRun(a, b, best[1], ahi, best[2], bhi)]

LongestAmong(a, b, alo, ahi, blo, bhi, cand) ==
    IF cand = {} THEN [i |-> alo, j |-> blo, size |-> 0]
    ELSE BlockAt(a, b, ahi, bhi, BestBlock(a, b, ahi, bhi, cand))

\* find_longest_match: the longest block, earliest in a, then earliest in b
FindLongestMatch(a, b, alo, ahi, blo, bhi) ==
    LongestAmong(a, b, alo, ahi, blo, bhi,
                 {p \in (alo .. ahi - 1) \X (blo .. bhi - 1) : a[p[1] + 1] = b[p[2] + 1]})

\* get_matching_blocks: total size of the matching blocks
RECURSIVE MatchingSize(_, _, _, _, _, _)
\* the block m, and the blocks to its left and to its right
SizeAround(a, b, alo, ahi, blo, bhi, m) ==
    IF m.size = 0 THEN 0
    ELSE m.size
         + (IF alo < m.i /\ blo < m.j
            THEN MatchingSize(a, b, alo, m.i, blo, m.j) ELSE 0)
         + (IF m.i + m.size < ahi /\ m.j + m.size < bhi
            THEN MatchingSize(a, b, m.i + m.size, ahi, m.j + m.size, bhi) ELSE 0)

MatchingSize(a, b, alo, ahi, blo, bhi) ==
    SizeAround(a, b, alo, ahi, blo, bhi, FindLongestMatch(a, b, alo, ahi, blo, bhi))

\* ratio(): 2.0 * matches / (len(a) + len(b)), 1.0 for two empty strings;
\* kept exact as the pair <<numerator, denominator>>
Ratio(a, b) ==
    IF Len(a) + Len(b) = 0 THEN <<1, 1>>
    ELSE <<2 * MatchingSize(a, b, 0, Len(a), 0, Len(b)), Len(a) + Len(b)>>

\* x >= y on ratios
RatioGE(x, y) == x[1] * y[2] >= y[1] * x[2]

\* x > y on ratios
RatioGT(x, y) == x[1] * y[2] > y[1] * x[2]

(***************************************************************************)
(* backend/tool_hash.py: the second definition of fix_tool_args (the one   *)
(* Python binds) and its helpers.                                          *)
(***************************************************************************)
\* SIMILARITY_THRESHOLD = 0.2, as a ratio
SIMILARITY_THRESHOLD == <<1, 5>>

get_similarity(s1, s2) == Ratio(s1, s2)

\* a slip of lines 99 and 144: > for >=
AboveThresholdStrict(sim) == RatioGT(sim, SIMILARITY_THRESHOLD)

\* similarity >= SIMILARITY_THRESHOLD
AboveThreshold(sim) == RatioGE(sim, SIMILARITY_THRESHOLD)

\* all(param in d for param in params)
AllPresent(params, d) == \A i \in DOMAIN params : HasKey(d, params[i])

\* 3.1: the items whose key is a declared parameter, kept as they are
ExactItems(all_expected_params, tool_args) ==
    SelectSeq(tool_args, LAMBDA it : it[1] \in Range(all_expected_params))

\* 3.1: temp_input_args, the items waiting for a fuzzy match
LooseItems(all_expected_params, tool_args) ==
    SelectSeq(tool_args, LAMBDA it : it[1] \notin Range(all_expected_params))

\* unmatched_expected_params
UnmatchedParams(all_expected_params, tool_args) ==
    SelectSeq(all_expected_params,
              LAMBDA p : p \notin Range(DictKeys(ExactItems(all_expected_params, tool_args))))

\* the inner loop over expected parameters, for one input key
RECURSIVE MatchesOfKey(_, _, _)
MatchesOfKey(input_key, params, j) ==
    IF j > Len(params) THEN <<>>
    ELSE LET similarity == get_similarity(input_key, params[j])
             here == IF AboveThreshold(similarity)
                     THEN <<[sim |-> similarity, expected_param |-> params[j],
                             input_key |-> input_key]>>
                     ELSE <<>>
         IN  here \o MatchesOfKey(input_key, params, j + 1)

\* potential_matches, in the order the two nested loops append them
RECURSIVE PotentialMatches(_, _, _)
PotentialMatches(keys, params, i) ==
    IF i > Len(keys) THEN <<>>
    ELSE MatchesOfKey(keys[i], params, 1) \o PotentialMatches(keys, params, i + 1)

\* a slip of line 149: a sort that is descending by score and puts a match
\* ahead of the earlier ones of the same score
RECURSIVE SortBySimilarityLastFirst(_)
SortBySimilarityLastFirst(ms) ==
    IF ms = <<>> THEN <<>>
    ELSE LET rest == SortBySimilarityLastFirst(SubSeq(ms, 1, Len(ms) - 1))
             m == ms[Len(ms)]
             cut == IF \E k \in 1 .. Len(rest) : RatioGE(m.sim, rest[k].sim)
                    THEN Min({k \in 1 .. Len(rest) : RatioGE(m.sim, rest[k].sim)}) - 1
                    ELSE Len(rest)
         IN  SubSeq(rest, 1, cut) \o <<m>> \o SubSeq(rest, cut + 1, Len(rest))

\* list.sort(key=lambda x: x[0], reverse=True): stable, descending by score
RECURSIVE SortBySimilarity(_)
SortBySimilarity(ms) ==
    IF ms = <<>> THEN <<>>
    ELSE LET rest == SortBySimilarity(SubSeq(ms, 1, Len(ms) - 1))
             m == ms[Len(ms)]
             \* m goes behind every element whose score is >= its own
             cut == IF \E k \in 1 .. Len(rest) : RatioGT(m.sim, rest[k].sim)
                    THEN Min({k \in 1 .. Len(rest) : RatioGT(m.sim, rest[k].sim)}) - 1
                    ELSE Len(rest)
         IN  SubSeq(rest, 1, cut) \o <<m>> \o SubSeq(rest, cut + 1, Len(rest))

\* a slip of line 155: the input key is not checked against used_input_keys
RECURSIVE GreedyTakeAnyKey(_, _, _, _)
GreedyTakeAnyKey(sorted, i, matched_expected_params, used_input_keys) ==
    IF i > Len(sorted) THEN <<>>
    ELSE LET m == sorted[i]
         IN  IF m.expected_param \notin matched_expected_params
             THEN <<m>> \o GreedyTakeAnyKey(sorted, i + 1,
                                            matched_expected_params \cup {m.expected_param},
                                            used_input_keys \cup {m.input_key})
             ELSE GreedyTakeAnyKey(sorted, i + 1, matched_expected_params, used_input_keys)

\* the loop over the sorted matches: the matches it takes, in order
RECURSIVE GreedyTake(_, _, _, _)
GreedyTake(sorted, i, matched_expected_params, used_input_keys) ==
    IF i > Len(sorted) THEN <<>>
    ELSE LET m == sorted[i]
         IN  IF m.expected_param \notin matched_expected_params
                /\ m.input_key \notin used_input_keys
             THEN <<m>> \o GreedyTake(sorted, i + 1,
                                      matched_expected_params \cup {m.expected_param},
                                      used_input_keys \cup {m.input_key})
             ELSE GreedyTake(sorted, i + 1, matched_expected_params, used_input_keys)

\* 3.2: the fuzzy assignments fix_tool_args makes for these arguments
FuzzyMatches(all_expected_params, tool_args) ==
    LET remaining_input_keys == DictKeys(LooseItems(all_expected_params, tool_args))
        unmatched_expected_params == UnmatchedParams(all_expected_params, tool_args)
    IN  IF remaining_input_keys # <<>> /\ unmatched_expected_params # <<>>
        THEN GreedyTake(
                 SortBySimilarity(
                     PotentialMatches(remaining_input_keys, unmatched_expected_params, 1)),
                 1,
                 Range(DictKeys(ExactItems(all_expected_params, tool_args))),
                 {})
        ELSE <<>>

\* fixed_args at 3.3: the exact items, then one item per fuzzy assignment
FixedArgs(all_expected_params, tool_args) ==
    LET taken == FuzzyMatches(all_expected_params, tool_args)
    IN  ExactItems(all_expected_params, tool_args)
        \o [i \in DOMAIN taken |->
               <<taken[i].expected_param, DictGet(tool_args, taken[i].input_key)>>]

\* a slip of line 86: every declared parameter is asked for, not every required one
is_required_present_all_declared(all_expected_params, required_params, tool_args) ==
    AllPresent(all_expected_params, tool_args)

\* 1: is_required_present
is_required_present(all_expected_params, required_params, tool_args) ==
    AllPresent(required_params, tool_args)

\* stage 2 applies: one required parameter, one argument, similar enough
SingleParamFix(required_params, tool_args) ==
    /\ Len(required_params) = 1
    /\ Len(tool_args) = 1
    /\ tool_args[1][1] # required_params[1]
    /\ AboveThreshold(get_similarity(tool_args[1][1], required_params[1]))

\* a slip of lines 167-173: fixed_args is returned whatever it lacks
FinalCheckSkipped(required_params, fixed_args, tool_args) == fixed_args

\* 3.3: is_required_fixed decides between fixed_args and the original
FinalCheck(required_params, fixed_args, tool_args) ==
    IF AllPresent(required_params, fixed_args) THEN fixed_args ELSE tool_args

fix_tool_args(tools, tool_args, tool_name) ==
    IF tool_name \notin DOMAIN tools THEN tool_args
    ELSE LET all_expected_params == tools[tool_name].input_schema.properties
             required_params == tools[tool_name].input_schema.required
         IN  IF all_expected_params = <<>> \/ tool_args = <<>> THEN tool_args
             ELSE IF is_required_present(all_expected_params, required_params, tool_args)
                  THEN tool_args
             ELSE IF SingleParamFix(required_params, tool_args)
                  THEN <<<<required_params[1], tool_args[1][2]>>>>
             ELSE FinalCheck(required_params,
                             FixedArgs(all_expected_params, tool_args), tool_args)

(***************************************************************************)
(* Parameter and argument names used as inputs.                            *)
(***************************************************************************)
query == <<"q", "u", "e", "r", "y">>
from == <<"f", "r", "o", "m">>
to == <<"t", "o">>
timestamp == <<"t", "i", "m", "e", "s", "t", "a", "m", "p">>
qeury == <<"q", "e", "u", "r", "y">>
too == <<"t", "o", "o">>
form == <<"f", "o", "r", "m">>
t == <<"t">>
zt == <<"z", "t">>
zz == <<"z", "z">>

(***************************************************************************)
(* What the collaborators of the loop exchange with it.  A text is a       *)
(* sequence of fragments (an f-string is the concatenation of its parts);  *)
(* an answer of the model is a sequence of characters.                     *)
(***************************************************************************)
MaxIter == 2        \* largest max_iterations a request asks for
MaxCalls == 3       \* tool calls the model proposes in one request, at most
MaxStartLen == 1    \* a new request starts on a Memory of at most this length

\* chunk_size = 20
chunk_size == 20

Digits == <<"0", "1", "2", "3", "4", "5", "6", "7", "8", "9">>

\* an answer of n characters
AnswerOf(n) == [i \in 1 .. n |-> Digits[(i % 10) + 1]]

\* the contents the model answers with: empty, one full chunk, two chunks and a rest
Answers == {AnswerOf(0), AnswerOf(chunk_size), AnswerOf(2 * chunk_size + 1)}

SystemPrompt == <<"You are a helpful assistant">>
UserPrompt == <<"prompt">>

NoCalls == <<>>

\* one entry of the conversation
Message(role, content, tool_call_id, tool_calls) ==
    [role |-> role, content |-> content, tool_call_id |-> tool_call_id,
     tool_calls |-> tool_calls]

SystemMessage == Message("system", SystemPrompt, "", NoCalls)
UserMessage(text) == Message("user", text, "", NoCalls)
AssistantMessage(text) == Message("assistant", text, "", NoCalls)

\* completion.choices[0].message.model_dump() of a response with tool calls
ToolCallMessage(tool_calls) == Message("assistant", <<>>, "", tool_calls)

\* a slip of lines 361-367: the message does not name its call
ToolMessageNoId(text, id) == Message("tool", text, "", NoCalls)

\* {"role": "tool", "content": ..., "tool_call_id": tool_call.id}
ToolMessage(text, id) == Message("tool", text, id, NoCalls)

\* what list_tools discovers: one tool, or nothing
SearchTools ==
    [n \in {"srv:search"} |->
        [name |-> "search", server |-> "srv",
         input_schema |-> [properties |-> <<query, timestamp>>, required |-> <<query>>]]]

NoTools == [n \in {} |-> [name |-> "", server |-> "",
                          input_schema |-> [properties |-> <<>>, required |-> <<>>]]]

Discoveries == {SearchTools, NoTools}

\* function.arguments is JSON text: well formed (the mapping it encodes) or not
JsonOf(mapping) == [well_formed |-> TRUE, mapping |-> mapping]
BadJson == [well_formed |-> FALSE, mapping |-> <<>>]

\* the calls the model proposes: a misnamed argument, an unknown tool, broken JSON
CallShapes ==
    {[name |-> "search", arguments |-> JsonOf(<<<<qeury, "AI">>>>)],
     [name |-> "nosuch", arguments |-> JsonOf(<<<<query, "AI">>>>)],
     [name |-> "search", arguments |-> BadJson]}

CallIds == <<"call_1", "call_2", "call_3", "call_4">>

\* the tool_calls lists of at most k calls, ids by position
ToolCallLists(k) ==
    UNION {{[i \in 1 .. n |-> [id |-> CallIds[i], name |-> shapes[i].name,
                               arguments |-> shapes[i].arguments]] :
               shapes \in [1 .. n -> CallShapes]} : n \in 1 .. k}

\* what the tool provider does with an invocation
DeniedError == <<"Access Denied", ": path outside the allowed directories">>
ServerError == <<"connection to server lost">>
ToolOutput == <<"3 documents found">>
JsonError == <<"Expecting value: line 1 column 1 (char 0)">>
ModelError == <<"Connection error.">>

\* "Access Denied" in error_text or "denied" in error_text.lower()
MentionsDenied(text) == \E i \in DOMAIN text : text[i] \in {"Access Denied", "denied"}

\* s1 \o s2 \o ... for a sequence of sequences
RECURSIVE Flatten(_)
Flatten(ss) == IF ss = <<>> THEN <<>> ELSE Head(ss) \o Flatten(Tail(ss))

(***************************************************************************)
(* State.                                                                  *)
(***************************************************************************)
VARIABLES
    fix,        \* one call of fix_tool_args: its inputs, its position, its result
    agent,      \* the agent class in use: "MCPBaseAgent" or "MCPAsyncAgent"
    history,    \* Memory: self.history / self.memory.entries
    pc,         \* where the request in flight stands; "idle" when none is
    req,        \* the locals of the request in flight
    events,     \* the events inference_stream has yielded for the request
    forwarded,  \* the events WebService.process_request_stream has yielded
    response,   \* the AgentResponse the synchronous entry point returns
    obs,        \* what an observer of the collaborators has seen of the request
    sessions,   \* the requests the web backend serves at once on the one agent
    system_prompt,  \* the agent's attribute self.system_prompt
    status_callback \* the agent's attribute self.status_callback: the status sink

vars == <<fix, agent, history, pc, req, events, forwarded, response, obs, sessions,
          system_prompt, status_callback>>

loop_vars == <<agent, history, pc, req, events, forwarded, response, obs, sessions,
               system_prompt, status_callback>>

(***************************************************************************)
(* Calls of fix_tool_args on its own: registries, names and argument       *)
(* mappings drawn from small sets.                                         *)
(***************************************************************************)
MaxParams == 2      \* declared parameters per schema
MaxArgs == 2        \* items per argument mapping

ParamNames == {query, from, to, timestamp}
KeyNames == {query, to, qeury, too, form, t, zt, zz}
ArgValues == <<"v1", "v2", "v3", "v4">>

\* the sequences without repetition over S, of length at most n
InjectiveSeqs(S, n) ==
    UNION {{s \in [1 .. k -> S] : \A i, j \in 1 .. k : i # j => s[i] # s[j]} : k \in 0 .. n}

\* the subsequences of s
SubSeqsOf(s) ==
    {SelectSeq(s, LAMBDA x : x \in keep) : keep \in SUBSET Range(s)}

\* input schemas: the declared parameters in order, the required ones among them
InputSchemas ==
    UNION {{[properties |-> ps, required |-> rs] : rs \in SubSeqsOf(ps)} :
              ps \in InjectiveSeqs(ParamNames, MaxParams)}

\* argument mappings: distinct keys, distinct values
ArgMappings ==
    {[i \in DOMAIN ks |-> <<ks[i], ArgValues[i]>>] : ks \in InjectiveSeqs(KeyNames, MaxArgs)}

\* a registry holding one tool
RegistryOf(schema) ==
    [n \in {"srv:lookup"} |-> [name |-> "lookup", server |-> "srv", input_schema |-> schema]]

FixIdle ==
    [pc |-> "idle", tools |-> RegistryOf([properties |-> <<>>, required |-> <<>>]),
     tool_name |-> "srv:lookup", tool_args |-> <<>>, result |-> <<>>, matches |-> <<>>]

\* no request in flight
ReqIdle ==
    [max_iterations |-> 0, round_count |-> 0, tools |-> NoTools, tool_calls |-> NoCalls,
     outcomes |-> <<>>, tools_used |-> <<>>]

NoRound == [base |-> <<>>, calls |-> NoCalls, outcomes |-> <<>>]

NoDenial == [seen |-> FALSE, base |-> <<>>, model_calls |-> 0, dispatches |-> 0]

\* nothing observed yet of the request
ObsIdle ==
    [model_calls |-> 0, with_tools |-> FALSE, dispatches |-> <<>>, round |-> NoRound,
     forced |-> FALSE, denial |-> NoDenial, cancelled |-> FALSE, final_messages |-> <<>>,
     notified |-> <<>>]

NoResponse == [status |-> "none", answer |-> <<>>, iterations_used |-> 0,
               tools_called |-> <<>>, error |-> <<>>]

\* the status sink a service leaves in the agent it creates (WebService and
\* CLIService __init__): its bridge to BaseService._notify_status, which
\* catches what a registered callback raises (base_service.py 100-112), when
\* the agent has the attribute status_callback; MCPBaseAgent has none
ServiceBridge(agent_type) == IF agent_type = "MCPAsyncAgent" THEN "bridge" ELSE "none"

\* the status sinks: none, the bridge of a service, a callback that returns,
\* a callback that raises whenever it is called
StatusCallbacks == {"none", "bridge", "quiet", "raising"}

\* str() of what the raising callback raises
SinkError == <<"status sink failed">>

\* _notify_status (mcp_agent_async.py 115-118) raises: there is a callback
\* and the call is not guarded
NotifyRaises(callback) == callback = "raising"

\* the sessions of the web backend, and a session with no request in flight
Sessions == {"s1", "s2"}

SessionIdle == [pc |-> "idle", round_count |-> 0, tool_calls |-> NoCalls,
                terminal |-> "none"]

NoSessions == [s \in Sessions |-> SessionIdle]

\* the agent as its constructor leaves it (mcp_agent.py 84-87)
AgentConstructed ==
    /\ sessions = NoSessions
    /\ system_prompt = SystemPrompt
    /\ status_callback = ServiceBridge(agent)
    /\ history = <<SystemMessage>>
    /\ pc = "idle"
    /\ req = ReqIdle
    /\ events = <<>>
    /\ forwarded = <<>>
    /\ response = NoResponse
    /\ obs = ObsIdle

InitFix ==
    /\ agent = "MCPBaseAgent"
    /\ AgentConstructed
    /\ fix \in {[pc |-> "called", tools |-> RegistryOf(sch), tool_name |-> n,
              tool_args |-> a, result |-> <<>>, matches |-> <<>>] :
                   sch \in InputSchemas, n \in {"srv:lookup", "srv:absent"},
                   a \in ArgMappings}

\* whether this call runs stage 3 (it returned at none of lines 71, 83, 89, 105)
ReachesStage3(tools, tool_args, tool_name) ==
    /\ tool_name \in DOMAIN tools
    /\ tools[tool_name].input_schema.properties # <<>>
    /\ tool_args # <<>>
    /\ ~is_required_present(tools[tool_name].input_schema.properties,
                            tools[tool_name].input_schema.required, tool_args)
    /\ ~SingleParamFix(tools[tool_name].input_schema.required, tool_args)

\* fix_tool_args runs to its return; matches records the assignments its
\* stage 3 made on the way
FixReturn ==
    /\ fix.pc = "called"
    /\ fix' = [fix EXCEPT
                 !.pc = "returned",
                 !.result = fix_tool_args(fix.tools, fix.tool_args, fix.tool_name),
                 !.matches =
                     IF ReachesStage3(fix.tools, fix.tool_args, fix.tool_name)
                     THEN FuzzyMatches(fix.tools[fix.tool_name].input_schema.properties,
                                       fix.tool_args)
                     ELSE <<>>]
    /\ UNCHANGED loop_vars

NextFix == FixReturn

SpecFix == InitFix /\ [][NextFix]_vars

(***************************************************************************)
(* The model provider and the tool provider, as the loop sees them.        *)
(***************************************************************************)
\* the calls the model may still propose in this request
CallsLeft == MaxCalls - (Len(req.tools_used) + Len(req.tool_calls))

\* a slip of the loop bound: one round too many
LoopContinuesInclusive(round_count, max_iterations) == round_count <= max_iterations

\* for round_count in range(max_iterations): is there another round
LoopContinues(round_count, max_iterations) == round_count < max_iterations

\* the registry key "server:name" of the tool a call names, "" when there is none
FindTool(available_tools, tool_name) ==
    LET hits == {n \in DOMAIN available_tools : available_tools[n].name = tool_name}
    IN  IF hits = {} THEN ""
        ELSE LET info == available_tools[CHOOSE n \in hits : TRUE]
             IN  info.server \o ":" \o info.name

\* the call gets as far as the tool provider
Dispatched(call, available_tools) ==
    FindTool(available_tools, call.name) # "" /\ call.arguments.well_formed

\* what the provider does with each call of a round: "ok", "fail" or "denied"
\* for a call it receives, "none" for a call that never reaches it
RoundOutcomes(tool_calls, available_tools) ==
    {o \in [DOMAIN tool_calls -> {"ok", "fail", "denied", "none"}] :
        \A i \in DOMAIN tool_calls :
            o[i] = "none" <=> ~Dispatched(tool_calls[i], available_tools)}

\* the exception the provider raises
ProviderError(outcome) == IF outcome = "denied" THEN DeniedError ELSE ServerError

\* a slip of lines 352-355: the exception text is not kept
ToolFailureTextLost(e) == <<"Tool execution failed">>

\* error_msg = f"Tool execution failed: {e}"
ToolFailureText(e) == <<"Tool execution failed: ">> \o e

\* a slip of line 323: the text does not say which tool
ToolNotFoundTextNameless(tool_name) == <<"Error: Tool not found">>

\* result_text = f"Error: Tool '{tool_name}' not found"
ToolNotFoundText(tool_name) == <<"Error: Tool '", tool_name, "' not found">>

(***************************************************************************)
(* MCPBaseAgent (agents/mcp_agent.py).                                     *)
(***************************************************************************)
\* one pass of the loop body of _execute_tool_calls
ExecuteToolCall(tool_call, available_tools, outcome) ==
    LET tool_name_long == FindTool(available_tools, tool_call.name)
    IN  IF tool_name_long = ""
        THEN [used |-> tool_call.name,
              message |-> ToolMessage(ToolNotFoundText(tool_call.name), tool_call.id),
              invoked |-> <<>>]
        ELSE IF ~tool_call.arguments.well_formed
        THEN [used |-> tool_name_long,
              message |-> ToolMessage(ToolFailureText(JsonError), tool_call.id),
              invoked |-> <<>>]
        ELSE LET tool_args == fix_tool_args(available_tools, tool_call.arguments.mapping,
                                            tool_name_long)
             IN  [used |-> tool_name_long,
                  message |-> ToolMessage(IF outcome = "ok" THEN ToolOutput
                                          ELSE ToolFailureText(ProviderError(outcome)),
                                          tool_call.id),
                  invoked |-> <<[tool_name |-> tool_name_long, call_params |-> tool_args,
                                 outcome |-> outcome]>>]

\* the return value of _execute_tool_calls, and the invocations made on the way
ToolResults(each) ==
    [tools_used |-> [i \in DOMAIN each |-> each[i].used],
     history |-> [i \in DOMAIN each |-> each[i].message],
     invoked |-> Flatten([i \in DOMAIN each |-> each[i].invoked])]

\* _execute_tool_calls: {"tools_used": ..., "history": ...}
ExecuteToolCalls(tool_calls, available_tools, outcomes) ==
    ToolResults([i \in DOMAIN tool_calls |->
                    ExecuteToolCall(tool_calls[i], available_tools, outcomes[i])])

\* inference: AgentResponse(status="success", ...)
SuccessResponse(answer, iterations, tools_called) ==
    [status |-> "success", answer |-> answer, iterations_used |-> iterations,
     tools_called |-> tools_called, error |-> <<>>]

\* inference: the RuntimeError of _process_query_async becomes a failed response
FailedResponse(e) ==
    [status |-> "failed",
     answer |-> <<"Error during inference: ", "Error during query processing: ">> \o e,
     iterations_used |-> 0, tools_called |-> <<>>,
     error |-> <<"Error during query processing: ">> \o e]

\* the observer's record of a denial by the provider (the first of the request)
DenialSeen(base, invoked_before) ==
    IF obs.denial.seen THEN obs.denial
    ELSE [seen |-> TRUE, base |-> base, model_calls |-> obs.model_calls + 1,
          dispatches |-> Len(obs.dispatches) + invoked_before]

\* the invocations up to and including the first one the provider denies
UpToDenial(invoked) ==
    Min({i \in DOMAIN invoked : invoked[i].outcome = "denied"})

LimitReachedText ==
    <<"You have reached the maximum tool call limit. ",
      "Please use the information gathered so far to generate your final answer.">>

\* _generate_final_response (lines 419-431): the limit message is appended and
\* messages=self.history goes to the model
FinalCallMessages(entries) == Append(entries, UserMessage(LimitReachedText))

\* a slip of line 433: the content is returned and not recorded
GenerateFinalResponseUnrecorded(entries, final_content) ==
    Append(entries, UserMessage(LimitReachedText))

\* a slip of lines 419-427: the limit message overwrites the last entry
GenerateFinalResponseOverLast(entries, final_content) ==
    (SubSeq(entries, 1, Len(entries) - 1) \o <<UserMessage(LimitReachedText)>>)
    \o <<AssistantMessage(final_content)>>

\* _generate_final_response (lines 405-438): the history it leaves
GenerateFinalResponse(entries, final_content) ==
    (entries \o <<UserMessage(LimitReachedText)>>) \o <<AssistantMessage(final_content)>>

\* inference -> _process_query_async up to the loop: tools listed, user message added
SyncStart ==
    /\ agent = "MCPBaseAgent"
    /\ pc = "idle"
    /\ Len(history) <= MaxStartLen
    /\ \E m \in 0 .. MaxIter, tools \in Discoveries :
          req' = [max_iterations |-> m, round_count |-> 0, tools |-> tools,
                  tool_calls |-> NoCalls, outcomes |-> <<>>, tools_used |-> <<>>]
    /\ history' = Append(history, UserMessage(UserPrompt))
    /\ pc' = "round"
    /\ response' = NoResponse
    /\ obs' = ObsIdle
    /\ UNCHANGED <<fix, sessions, system_prompt, status_callback, agent, events, forwarded>>

\* a round whose model call raises: lines 260-263, then 157-163
SyncModelRaises ==
    /\ agent = "MCPBaseAgent"
    /\ pc = "round"
    /\ LoopContinues(req.round_count, req.max_iterations)
    /\ obs' = [obs EXCEPT !.model_calls = @ + 1, !.with_tools = TRUE]
    /\ response' = FailedResponse(ModelError)
    /\ pc' = "idle"
    /\ UNCHANGED <<fix, sessions, system_prompt, status_callback, agent, history, req, events, forwarded>>

\* a round whose model response has no tool calls: lines 231-247, then 143-155
SyncFinalAnswer ==
    /\ agent = "MCPBaseAgent"
    /\ pc = "round"
    /\ LoopContinues(req.round_count, req.max_iterations)
    /\ \E final_answer \in Answers :
          /\ history' = Append(history, AssistantMessage(final_answer))
          /\ response' = SuccessResponse(final_answer, req.round_count + 1, req.tools_used)
    /\ obs' = [obs EXCEPT !.model_calls = @ + 1, !.with_tools = TRUE]
    /\ pc' = "idle"
    /\ UNCHANGED <<fix, sessions, system_prompt, status_callback, agent, req, events, forwarded>>

\* a round whose model response carries tool calls: lines 218-229
SyncToolRound ==
    /\ agent = "MCPBaseAgent"
    /\ pc = "round"
    /\ LoopContinues(req.round_count, req.max_iterations)
    /\ \E tool_call_lists \in ToolCallLists(CallsLeft) :
       \E outcomes \in RoundOutcomes(tool_call_lists, req.tools) :
          LET tool_results == ExecuteToolCalls(tool_call_lists, req.tools, outcomes)
              denied == \E i \in DOMAIN outcomes : outcomes[i] = "denied"
          IN  /\ history' = (history \o <<ToolCallMessage(tool_call_lists)>>)
                            \o tool_results.history
              /\ req' = [req EXCEPT !.round_count = @ + 1,
                                    !.tools_used = @ \o tool_results.tools_used]
              /\ obs' = [obs EXCEPT
                           !.model_calls = @ + 1,
                           !.with_tools = TRUE,
                           !.dispatches = @ \o tool_results.invoked,
                           !.round = [base |-> history, calls |-> tool_call_lists,
                                      outcomes |-> outcomes],
                           !.denial = IF denied
                                      THEN DenialSeen(history,
                                                      UpToDenial(tool_results.invoked))
                                      ELSE @]
    /\ pc' = "round"
    /\ UNCHANGED <<fix, sessions, system_prompt, status_callback, agent, events, forwarded, response>>

\* max_iterations rounds are over: _generate_final_response (lines 249-258, 405-438)
SyncForcedFinal ==
    /\ agent = "MCPBaseAgent"
    /\ pc = "round"
    /\ ~LoopContinues(req.round_count, req.max_iterations)
    /\ obs' = [obs EXCEPT !.model_calls = @ + 1, !.with_tools = FALSE, !.forced = TRUE,
                          !.final_messages = FinalCallMessages(history)]
    /\ \/ \E final_content \in Answers :
             /\ history' = GenerateFinalResponse(history, final_content)
             /\ response' = SuccessResponse(final_content, req.max_iterations,
                                            req.tools_used)
       \/ /\ history' = Append(history, UserMessage(LimitReachedText))
          /\ response' = FailedResponse(ModelError)
    /\ pc' = "idle"
    /\ UNCHANGED <<fix, sessions, system_prompt, status_callback, agent, req, events, forwarded>>

\* the episodes a caller hands to append_history: a role, or none, and a text
Episode(role) == Message(role, UserPrompt, "", NoCalls)

EpisodeLists ==
    UNION {[1 .. n -> {Episode(r) : r \in {"system", "user", "assistant", "tool", ""}}] :
              n \in 1 .. 2}

\* append_history (lines 507-527): the episodes with a role of the
\* conversation are appended in order, the others are logged and left out
RECURSIVE append_history(_, _)
append_history(entries, history_episodes) ==
    IF history_episodes = <<>> THEN entries
    ELSE append_history(IF Head(history_episodes).role \in {"system", "user", "assistant"}
                        THEN Append(entries, Head(history_episodes))
                        ELSE entries,
                        Tail(history_episodes))

\* a caller restores earlier episodes into the idle agent; what the last
\* request left behind in locals and return value is gone by then
AppendHistory ==
    /\ agent = "MCPBaseAgent"
    /\ pc = "idle"
    /\ Len(history) <= MaxStartLen
    /\ \E history_episodes \in EpisodeLists :
          history' = append_history(history, history_episodes)
    /\ req' = ReqIdle
    /\ response' = NoResponse
    /\ obs' = ObsIdle
    /\ UNCHANGED <<fix, sessions, system_prompt, status_callback, agent, pc, events, forwarded>>

\* a slip of line 531: the history is emptied, system prompt included
ClearedHistoryEmpty == <<>>

\* clear_history: [{"role": "system", "content": self.system_prompt}]
ClearedHistory == <<Message("system", system_prompt, "", NoCalls)>>

\* SequentialMemory.clear: the system message the Memory was created with
MemoryClear == <<SystemMessage>>

\* clear_history (mcp_agent.py 529-531, mcp_agent_async.py 390-394)
ClearHistory ==
    /\ pc = "idle"
    /\ history' = IF agent = "MCPBaseAgent" THEN ClearedHistory ELSE MemoryClear
    /\ UNCHANGED <<fix, sessions, system_prompt, status_callback, agent, pc, req, events, forwarded, response, obs>>

(***************************************************************************)
(* MCPAsyncAgent (agents/mcp_agent_async.py) behind WebService             *)
(* (services/web_service.py).  memory.sequential and tools.mcp_base are    *)
(* not among the sources: SequentialMemory and MCPBase follow the          *)
(* specification (4.1, 4.2, 4.4).                                          *)
(***************************************************************************)
\* SequentialMemory.add
MemoryAdd(entries, message) == Append(entries, message)

\* SequentialMemory.add_many
MemoryAddMany(entries, messages) == entries \o messages

StreamEvent(type, name, args, result, success, text) ==
    [type |-> type, name |-> name, args |-> args, result |-> result,
     success |-> success, text |-> text]

ContentEvent(chunk) == StreamEvent("content", "", <<>>, <<>>, TRUE, chunk)
DoneEvent == StreamEvent("done", "", <<>>, <<>>, TRUE, <<>>)
ErrorEvent(error_text) == StreamEvent("error", "", <<>>, <<>>, FALSE, error_text)
ToolEvent(type, d) == StreamEvent(type, d.name, d.args, d.result, d.success, <<>>)

\* a slip of lines 316-320: the rest of the answer after the last full chunk
\* is not sent
ContentEventsFullOnly(final_answer) ==
    [k \in 1 .. (Len(final_answer) \div chunk_size) |->
        ContentEvent(SubSeq(final_answer, (k - 1) * chunk_size + 1, k * chunk_size))]

\* range(0, len(final_answer), chunk_size): one content event per chunk
ContentEvents(final_answer) ==
    [k \in 1 .. ((Len(final_answer) + chunk_size - 1) \div chunk_size) |->
        ContentEvent(SubSeq(final_answer, (k - 1) * chunk_size + 1,
                            IF k * chunk_size < Len(final_answer)
                            THEN k * chunk_size ELSE Len(final_answer)))]

\* "".join(answer_parts): the text of the content events of a sequence, joined
RECURSIVE ContentOf(_)
ContentOf(seq) ==
    IF seq = <<>> THEN <<>>
    ELSE (IF Head(seq).type = "content" THEN Head(seq).text ELSE <<>>) \o ContentOf(Tail(seq))

\* the names in the tool_call_start events of a sequence, in order
RECURSIVE StartedTools(_)
StartedTools(seq) ==
    IF seq = <<>> THEN <<>>
    ELSE (IF Head(seq).type = "tool_call_start" THEN <<Head(seq).name>> ELSE <<>>)
         \o StartedTools(Tail(seq))

\* MCPAsyncAgent.inference: _build_response_from_events (lines 164-190) over
\* the events _collect_events gathered
BuildResponseFromEvents(collected) ==
    [status |-> "success", answer |-> ContentOf(collected),
     iterations_used |-> Len(StartedTools(collected)),
     tools_called |-> StartedTools(collected), error |-> <<>>]

\* WebService.process_request (lines 77-96) over the events of
\* process_request_stream; its metadata holds the tool calls and no count
ProcessRequestResponse(collected) ==
    [status |-> "success", answer |-> ContentOf(collected), iterations_used |-> 0,
     tools_called |-> StartedTools(collected), error |-> <<>>]

\* the outcomes of a round in MCPBase.execute_tool_calls: the calls behind a
\* denied one are not reached
StreamRoundOutcomes(tool_calls, available_tools) ==
    {o \in [DOMAIN tool_calls -> {"ok", "fail", "denied", "none", "unreached"}] :
        \A i \in DOMAIN tool_calls :
            IF \E j \in 1 .. i - 1 : o[j] = "denied"
            THEN o[i] = "unreached"
            ELSE /\ o[i] # "unreached"
                 /\ o[i] = "none" <=> ~Dispatched(tool_calls[i], available_tools)}

\* MCPBase.execute_tool_calls, one call: reconciled, invoked, recorded (4.4 step 2);
\* a failure of the provider that is no denial is an outcome (4.4 step 3)
McpExecuteToolCall(tool_call, available_tools, outcome) ==
    LET tool_name_long == FindTool(available_tools, tool_call.name)
    IN  IF outcome = "unreached"
        THEN [used |-> "", message |-> ToolMessage(<<>>, tool_call.id), invoked |-> <<>>,
              detail |-> [name |-> "", args |-> <<>>, result |-> <<>>, success |-> FALSE]]
        ELSE IF tool_name_long = ""
        THEN [used |-> tool_call.name,
              message |-> ToolMessage(ToolNotFoundText(tool_call.name), tool_call.id),
              invoked |-> <<>>,
              detail |-> [name |-> tool_call.name, args |-> <<>>,
                          result |-> ToolNotFoundText(tool_call.name), success |-> FALSE]]
        ELSE IF ~tool_call.arguments.well_formed
        THEN [used |-> tool_name_long,
              message |-> ToolMessage(ToolFailureText(JsonError), tool_call.id),
              invoked |-> <<>>,
              detail |-> [name |-> tool_name_long, args |-> <<>>,
                          result |-> ToolFailureText(JsonError), success |-> FALSE]]
        ELSE LET tool_args == fix_tool_args(available_tools, tool_call.arguments.mapping,
                                            tool_name_long)
                 result_text == IF outcome = "ok" THEN ToolOutput
                                ELSE ToolFailureText(ProviderError(outcome))
             IN  [used |-> tool_name_long,
                  message |-> ToolMessage(result_text, tool_call.id),
                  invoked |-> <<[tool_name |-> tool_name_long, call_params |-> tool_args,
                                 outcome |-> outcome]>>,
                  detail |-> [name |-> tool_name_long, args |-> tool_args,
                              result |-> result_text, success |-> outcome = "ok"]]

\* the return value of MCPBase.execute_tool_calls, and the invocations made
McpToolResults(each) ==
    [tools_used |-> [i \in DOMAIN each |-> each[i].used],
     history |-> [i \in DOMAIN each |-> each[i].message],
     tools_detailed |-> [i \in DOMAIN each |-> each[i].detail],
     invoked |-> Flatten([i \in DOMAIN each |-> each[i].invoked])]

McpExecuteToolCalls(tool_calls, available_tools, outcomes) ==
    McpToolResults([i \in DOMAIN tool_calls |->
                       McpExecuteToolCall(tool_calls[i], available_tools, outcomes[i])])

\* a slip of lines 272-281: the result is yielded ahead of the start
ToolEventsResultFirst(tools_detailed) ==
    Flatten([i \in DOMAIN tools_detailed |->
                <<ToolEvent("tool_result", tools_detailed[i]),
                  ToolEvent("tool_call_start", tools_detailed[i])>>])

\* lines 272-281: a tool_call_start and a tool_result event per detail
ToolEvents(tools_detailed) ==
    Flatten([i \in DOMAIN tools_detailed |->
                <<ToolEvent("tool_call_start", tools_detailed[i]),
                  ToolEvent("tool_result", tools_detailed[i])>>])

\* a slip of lines 301-306: the last entry is popped whatever its role
RemoveLastAnyRole(entries) ==
    IF entries # <<>> THEN SubSeq(entries, 1, Len(entries) - 1) ELSE entries

\* lines 301-306: self.memory.entries.pop() under its guard
RemoveLast(entries) ==
    IF entries # <<>> /\ entries[Len(entries)].role = "assistant"
    THEN SubSeq(entries, 1, Len(entries) - 1)
    ELSE entries

\* lines 294-306: the entries after an exception of the tool round
Rollback(entries, error_text) ==
    IF MentionsDenied(error_text) THEN RemoveLast(entries) ELSE entries

\* WebService._notify_status from process_request_stream (lines 117, 140,
\* 145): the status types the service itself has sent to the sink, when
\* the agent is behind the service
ServiceNotifies(notified, callback, status_type) ==
    IF callback = "bridge" THEN Append(notified, status_type) ELSE notified

\* process_request_stream, lines 136-140: the agent's generator is exhausted
\* (StopAsyncIteration), whatever its last event was; the loop is left and
\* the sink is told "completed"
StreamEnded(notified, callback) == ServiceNotifies(notified, callback, "completed")

TimeoutText == <<"Request processing timeout after ", "100", " seconds">>

\* _generate_final_response (line 369): memory.get_view("chat_messages"), the
\* entries as they are, go to the model
ChatMessagesView(entries) == entries

\* a slip of lines 345-350: the outer handler drops the newest entry
AfterModelFailureDropsLast(entries) ==
    IF entries = <<>> THEN entries ELSE SubSeq(entries, 1, Len(entries) - 1)

\* Memory after a failed model call: the handler of lines 345-350 reports the
\* failure and leaves the entries alone (the pop of lines 300-306 belongs to
\* the try block of the tool round)
AfterModelFailure(entries) == entries

\* a slip of lines 345-350: the failure is reported and the loop goes on
AfterErrorResumes == "round"

\* lines 345-350: the except clause is the last statement of the generator
AfterError == "idle"

\* process_request_stream calls inference_stream: lines 213-219, up to
\* the await of list_tools
StreamStart ==
    /\ agent = "MCPAsyncAgent"
    /\ pc = "idle"
    /\ ~NotifyRaises(status_callback)
    /\ Len(history) <= MaxStartLen
    /\ \E m \in 0 .. MaxIter :
          req' = [ReqIdle EXCEPT !.max_iterations = m]
    /\ pc' = "listing"
    /\ events' = <<>>
    /\ forwarded' = <<>>
    /\ obs' = [ObsIdle EXCEPT
                 !.notified = ServiceNotifies(@, status_callback, "processing")]
    /\ response' = NoResponse
    /\ UNCHANGED <<fix, sessions, system_prompt, status_callback, agent, history>>

\* list_tools returns: lines 219-232
StreamListed ==
    /\ agent = "MCPAsyncAgent"
    /\ pc = "listing"
    /\ \E tools \in Discoveries : req' = [req EXCEPT !.tools = tools]
    /\ history' = MemoryAdd(history, UserMessage(UserPrompt))
    /\ pc' = "round"
    /\ UNCHANGED <<fix, sessions, system_prompt, status_callback, agent, events, forwarded, response, obs>>

\* a model call that raises or times out: lines 245-253 or 376-383, then 345-350
StreamModelFails ==
    /\ agent = "MCPAsyncAgent"
    /\ pc = "round"
    /\ obs' = [obs EXCEPT
                 !.model_calls = @ + 1,
                 !.with_tools = LoopContinues(req.round_count, req.max_iterations),
                 !.forced = ~LoopContinues(req.round_count, req.max_iterations),
                 !.final_messages =
                     IF LoopContinues(req.round_count, req.max_iterations) THEN <<>>
                     ELSE ChatMessagesView(history),
                 !.notified = StreamEnded(@, status_callback)]
    /\ \E error_text \in {ModelError, <<>>} :
          /\ events' = Append(events, ErrorEvent(error_text))
          /\ forwarded' = Append(forwarded, ErrorEvent(error_text))
    /\ pc' = AfterError
    /\ history' = AfterModelFailure(history)
    /\ response' = BuildResponseFromEvents(events')
    /\ UNCHANGED <<fix, sessions, system_prompt, status_callback, agent, req>>

\* a round whose model response has no tool calls: lines 309-324
StreamFinalAnswer ==
    /\ agent = "MCPAsyncAgent"
    /\ pc = "round"
    /\ LoopContinues(req.round_count, req.max_iterations)
    /\ obs' = [obs EXCEPT !.model_calls = @ + 1, !.with_tools = TRUE,
                          !.notified = StreamEnded(@, status_callback)]
    /\ \E final_answer \in Answers :
          /\ history' = MemoryAdd(history, AssistantMessage(final_answer))
          /\ events' = (events \o ContentEvents(final_answer)) \o <<DoneEvent>>
          /\ forwarded' = (forwarded \o ContentEvents(final_answer)) \o <<DoneEvent>>
    /\ pc' = "idle"
    /\ response' = BuildResponseFromEvents(events')
    /\ UNCHANGED <<fix, sessions, system_prompt, status_callback, agent, req>>

\* a round whose model response carries tool calls: lines 261-267, up to
\* the await of execute_tool_calls
StreamToolCalls ==
    /\ agent = "MCPAsyncAgent"
    /\ pc = "round"
    /\ LoopContinues(req.round_count, req.max_iterations)
    /\ \E tool_call_lists \in ToolCallLists(CallsLeft) :
          /\ history' = MemoryAdd(history, ToolCallMessage(tool_call_lists))
          /\ req' = [req EXCEPT !.tool_calls = tool_call_lists]
          /\ obs' = [obs EXCEPT
                       !.model_calls = @ + 1,
                       !.with_tools = TRUE,
                       !.round = [base |-> history, calls |-> tool_call_lists,
                                  outcomes |-> <<>>]]
    /\ pc' = "tools"
    /\ UNCHANGED <<fix, sessions, system_prompt, status_callback, agent, events, forwarded, response>>

\* execute_tool_calls returns (lines 266-269): every call of the round has
\* been dispatched and has its result; no event of the round is yielded yet
StreamToolsExecuted ==
    /\ agent = "MCPAsyncAgent"
    /\ pc = "tools"
    /\ \E outcomes \in StreamRoundOutcomes(req.tool_calls, req.tools) :
          /\ \A i \in DOMAIN outcomes : outcomes[i] # "denied"
          /\ req' = [req EXCEPT !.outcomes = outcomes]
          /\ obs' = [obs EXCEPT
                       !.dispatches = @ \o McpExecuteToolCalls(req.tool_calls, req.tools,
                                                               outcomes).invoked]
    /\ pc' = "emitting"
    /\ UNCHANGED <<fix, sessions, system_prompt, status_callback, agent, history, events, forwarded, response>>

\* the events of the round are yielded and its results stored: lines 271-292
StreamToolsDone ==
    /\ agent = "MCPAsyncAgent"
    /\ pc = "emitting"
    /\ LET tool_results == McpExecuteToolCalls(req.tool_calls, req.tools, req.outcomes)
       IN  /\ events' = events \o ToolEvents(tool_results.tools_detailed)
           /\ forwarded' = forwarded \o ToolEvents(tool_results.tools_detailed)
           /\ history' = MemoryAddMany(history, tool_results.history)
           /\ req' = [req EXCEPT !.round_count = @ + 1,
                                 !.tools_used = @ \o tool_results.tools_used,
                                 !.tool_calls = NoCalls,
                                 !.outcomes = <<>>]
    /\ obs' = [obs EXCEPT !.round.outcomes = req.outcomes]
    /\ pc' = "round"
    /\ UNCHANGED <<fix, sessions, system_prompt, status_callback, agent, response>>

\* execute_tool_calls raises a denial: lines 294-307, then 345-350
StreamToolsDenied ==
    /\ agent = "MCPAsyncAgent"
    /\ pc = "tools"
    /\ \E outcomes \in StreamRoundOutcomes(req.tool_calls, req.tools) :
          /\ \E i \in DOMAIN outcomes : outcomes[i] = "denied"
          /\ LET tool_results == McpExecuteToolCalls(req.tool_calls, req.tools, outcomes)
             IN  obs' = [obs EXCEPT
                           !.dispatches = @ \o tool_results.invoked,
                           !.round.outcomes = outcomes,
                           !.denial = [seen |-> TRUE, base |-> obs.round.base,
                                       model_calls |-> obs.model_calls,
                                       dispatches |-> Len(obs.dispatches)
                                                      + Len(tool_results.invoked)],
                           !.notified = StreamEnded(@, status_callback)]
    /\ history' = Rollback(history, DeniedError)
    /\ events' = Append(events, ErrorEvent(DeniedError))
    /\ forwarded' = Append(forwarded, ErrorEvent(DeniedError))
    /\ pc' = AfterError
    /\ response' = BuildResponseFromEvents(events')
    /\ UNCHANGED <<fix, sessions, system_prompt, status_callback, agent, req>>

\* max_iterations rounds are over: lines 326-343 and 367-388
StreamForcedFinal ==
    /\ agent = "MCPAsyncAgent"
    /\ pc = "round"
    /\ ~LoopContinues(req.round_count, req.max_iterations)
    /\ obs' = [obs EXCEPT !.model_calls = @ + 1, !.with_tools = FALSE, !.forced = TRUE,
                          !.final_messages = ChatMessagesView(history),
                          !.notified = StreamEnded(@, status_callback)]
    /\ \E final_answer \in Answers :
          /\ history' = MemoryAdd(history, AssistantMessage(final_answer))
          /\ events' = (events \o ContentEvents(final_answer)) \o <<DoneEvent>>
          /\ forwarded' = (forwarded \o ContentEvents(final_answer)) \o <<DoneEvent>>
    /\ pc' = "idle"
    /\ response' = BuildResponseFromEvents(events')
    /\ UNCHANGED <<fix, sessions, system_prompt, status_callback, agent, req>>

\* web_service.py 131-146: no event within backend_timeout; the pending
\* __anext__ is cancelled and the service yields its own error event
ServiceTimeout ==
    /\ agent = "MCPAsyncAgent"
    /\ pc \in {"listing", "round", "tools"}
    /\ forwarded' = Append(forwarded, ErrorEvent(TimeoutText))
    /\ obs' = [obs EXCEPT
                 !.cancelled = TRUE,
                 !.model_calls = IF pc = "round" THEN @ + 1 ELSE @,
                 !.with_tools = IF pc = "round"
                                THEN LoopContinues(req.round_count, req.max_iterations)
                                ELSE @,
                 !.forced = IF pc = "round"
                            THEN ~LoopContinues(req.round_count, req.max_iterations)
                            ELSE @,
                 !.final_messages =
                     IF pc = "round" /\ ~LoopContinues(req.round_count, req.max_iterations)
                     THEN ChatMessagesView(history) ELSE @,
                 !.notified = ServiceNotifies(@, status_callback, "error")]
    /\ pc' = "idle"
    /\ response' = ProcessRequestResponse(forwarded')
    /\ UNCHANGED <<fix, sessions, system_prompt, status_callback, agent, history, req, events>>

(***************************************************************************)
(* The rollback on its own: the except clause of the tool round (lines     *)
(* 294-307) entered on any Memory with a denial.                           *)
(***************************************************************************)
MaxMemLen == 3      \* entries of the Memory the rollback is tried on, at most

\* an entry of each kind the loop appends
SampleMessages ==
    {SystemMessage, UserMessage(UserPrompt), AssistantMessage(AnswerOf(0)),
     ToolCallMessage(<<[id |-> "call_1", name |-> "search", arguments |-> BadJson]>>),
     ToolMessage(ToolOutput, "call_1")}

\* the texts of a denial: str(tool_exc) holds "Access Denied" or "denied"
DenialTexts == {DeniedError, <<"permission ", "denied">>}

InitRollback ==
    /\ fix = FixIdle
    /\ sessions = NoSessions
    /\ system_prompt = SystemPrompt
    /\ agent = "MCPAsyncAgent"
    /\ status_callback = ServiceBridge(agent)
    /\ history \in UNION {[1 .. n -> SampleMessages] : n \in 0 .. MaxMemLen}
    /\ pc = "raised"
    /\ req = ReqIdle
    /\ events = <<>>
    /\ forwarded = <<>>
    /\ response = NoResponse
    /\ obs = [ObsIdle EXCEPT !.round.base = history]

\* the except clause runs: rollback, then the failure goes up and becomes
\* the error event (lines 345-350)
RollbackStep ==
    /\ pc = "raised"
    /\ \E error_text \in DenialTexts :
          /\ history' = Rollback(history, error_text)
          /\ events' = <<ErrorEvent(error_text)>>
    /\ pc' = AfterError
    /\ UNCHANGED <<fix, sessions, system_prompt, status_callback, agent, req, forwarded, response, obs>>

NextRollback == RollbackStep

SpecRollback == InitRollback /\ [][NextRollback]_vars

\* append_history on its own: any history of the agent, any list of episodes.
\* The method returns None whatever the roles are (lines 523-527).
InitAppend ==
    /\ fix = FixIdle
    /\ sessions = NoSessions
    /\ system_prompt = SystemPrompt
    /\ agent = "MCPBaseAgent"
    /\ status_callback = ServiceBridge(agent)
    /\ history \in {h \in UNION {[1 .. n -> SampleMessages] : n \in 1 .. MaxMemLen} :
                       h[1] = SystemMessage}
    /\ pc = "appending"
    /\ req \in {[history_episodes |-> e] : e \in EpisodeLists}
    /\ events = <<>>
    /\ forwarded = <<>>
    /\ response = NoResponse
    /\ obs = [ObsIdle EXCEPT !.round.base = history]

AppendStep ==
    /\ pc = "appending"
    /\ history' = append_history(history, req.history_episodes)
    /\ pc' = "idle"
    /\ UNCHANGED <<fix, sessions, system_prompt, status_callback, agent, req, events, forwarded, response, obs>>

NextAppend == AppendStep

SpecAppend == InitAppend /\ [][NextAppend]_vars

(***************************************************************************)
(* The web backend (backend/web_backend.py): one WebService, one agent,    *)
(* one Memory for every session.  chat_stream starts a generator per HTTP  *)
(* request, and the generators of two requests take turns at each await.   *)
(* Each session runs inference_stream as above, on inputs from smaller     *)
(* sets: max_tool_call rounds of one proposed call, one answer.            *)
(***************************************************************************)
MaxSessionIter == 1     \* max_tool_call of the agent the backend serves

SessionPrompt(s) == <<"prompt of ", s>>
SessionAnswer(s) == <<"answer to ", s>>

\* the one call the model proposes to a session, told apart by its id
SessionCalls(s) ==
    <<[id |-> IF s = "s1" THEN CallIds[1] ELSE CallIds[2], name |-> "search",
       arguments |-> JsonOf(<<<<qeury, "AI">>>>)]>>

main_vars == <<fix, agent, pc, req, events, forwarded, response, obs, system_prompt,
               status_callback>>

\* chat_stream -> process_request_stream -> inference_stream, up to the
\* await of list_tools (web_backend.py 119-137, mcp_agent_async.py 213-219)
SessionStart(s) ==
    /\ agent = "MCPAsyncAgent"
    /\ sessions[s].pc = "idle"
    /\ Len(history) <= MaxStartLen
    /\ sessions' = [sessions EXCEPT ![s] = [SessionIdle EXCEPT !.pc = "listing"]]
    /\ UNCHANGED <<main_vars, history>>

\* list_tools returns, the user message is added: lines 219-232
SessionListed(s) ==
    /\ sessions[s].pc = "listing"
    /\ history' = MemoryAdd(history, UserMessage(SessionPrompt(s)))
    /\ sessions' = [sessions EXCEPT ![s].pc = "round"]
    /\ UNCHANGED main_vars

\* the model call raises or times out: lines 245-253, then 345-350
SessionModelFails(s) ==
    /\ sessions[s].pc = "round"
    /\ sessions' = [sessions EXCEPT ![s].pc = AfterError, ![s].terminal = "error"]
    /\ UNCHANGED <<main_vars, history>>

\* the model answers, in a round or in the forced call: lines 309-343, 367-388
SessionFinalAnswer(s) ==
    /\ sessions[s].pc = "round"
    /\ history' = MemoryAdd(history, AssistantMessage(SessionAnswer(s)))
    /\ sessions' = [sessions EXCEPT ![s].pc = "idle", ![s].terminal = "done"]
    /\ UNCHANGED main_vars

\* the model proposes a call: lines 261-269
SessionToolCalls(s) ==
    /\ sessions[s].pc = "round"
    /\ LoopContinues(sessions[s].round_count, MaxSessionIter)
    /\ history' = MemoryAdd(history, ToolCallMessage(SessionCalls(s)))
    /\ sessions' = [sessions EXCEPT ![s].pc = "tools", ![s].tool_calls = SessionCalls(s)]
    /\ UNCHANGED main_vars

\* execute_tool_calls returns, events yielded, results stored: lines 266-292
SessionToolsDone(s) ==
    /\ sessions[s].pc = "tools"
    /\ \E outcomes \in StreamRoundOutcomes(sessions[s].tool_calls, SearchTools) :
          /\ \A i \in DOMAIN outcomes : outcomes[i] # "denied"
          /\ history' = MemoryAddMany(history,
                                      McpExecuteToolCalls(sessions[s].tool_calls,
                                                          SearchTools, outcomes).history)
    /\ sessions' = [sessions EXCEPT ![s].pc = "round", ![s].round_count = @ + 1,
                                    ![s].tool_calls = NoCalls]
    /\ UNCHANGED main_vars

\* execute_tool_calls raises a denial: lines 294-307, then 345-350
SessionToolsDenied(s) ==
    /\ sessions[s].pc = "tools"
    /\ history' = Rollback(history, DeniedError)
    /\ sessions' = [sessions EXCEPT ![s].pc = AfterError, ![s].terminal = "error"]
    /\ UNCHANGED main_vars

\* clear_chat -> clear_session -> agent.clear_history (web_backend.py
\* 145-150, web_service.py 196-203), whatever the other requests are at
SessionClear ==
    /\ agent = "MCPAsyncAgent"
    /\ history' = MemoryClear
    /\ UNCHANGED <<main_vars, sessions>>

InitShared ==
    /\ fix = FixIdle
    /\ agent = "MCPAsyncAgent"
    /\ AgentConstructed

NextShared ==
    \/ \E s \in Sessions :
          \/ SessionStart(s)
          \/ SessionListed(s)
          \/ SessionModelFails(s)
          \/ SessionFinalAnswer(s)
          \/ SessionToolCalls(s)
          \/ SessionToolsDone(s)
          \/ SessionToolsDenied(s)
    \/ SessionClear

SpecShared == InitShared /\ [][NextShared]_vars

Init ==
    /\ fix = FixIdle
    /\ agent \in {"MCPBaseAgent", "MCPAsyncAgent"}
    /\ AgentConstructed

Next ==
    \/ SyncStart
    \/ SyncModelRaises
    \/ SyncFinalAnswer
    \/ SyncToolRound
    \/ SyncForcedFinal
    \/ StreamStart
    \/ StreamListed
    \/ StreamModelFails
    \/ StreamFinalAnswer
    \/ StreamToolCalls
    \/ StreamToolsExecuted
    \/ StreamToolsDone
    \/ StreamToolsDenied
    \/ StreamForcedFinal
    \/ ServiceTimeout
    \/ AppendHistory
    \/ ClearHistory

Spec == Init /\ [][Next]_vars

(***************************************************************************)
(* CLIService (services/cli_service.py) over MCPBaseAgent: the requests,   *)
(* append_history and clear_history of the agent, and the configuration    *)
(* updates of the service between them.                                    *)
(***************************************************************************)
\* the values a caller gives to the system_prompt key
SystemPrompts == {SystemPrompt, <<"Answer in one sentence">>}

\* update_agent_config(system_prompt=value) (lines 144-159): the agent has
\* the attribute, setattr replaces it
UpdateAgentConfig ==
    /\ agent = "MCPBaseAgent"
    /\ pc = "idle"
    /\ \E value \in SystemPrompts : system_prompt' = value
    /\ UNCHANGED <<fix, sessions, status_callback, agent, history, pc, req, events, forwarded,
                   response, obs>>

InitCli ==
    /\ fix = FixIdle
    /\ agent = "MCPBaseAgent"
    /\ AgentConstructed

NextCli ==
    \/ SyncStart
    \/ SyncModelRaises
    \/ SyncFinalAnswer
    \/ SyncToolRound
    \/ SyncForcedFinal
    \/ AppendHistory
    \/ ClearHistory
    \/ UpdateAgentConfig

SpecCli == InitCli /\ [][NextCli]_vars

(***************************************************************************)
(* MCPAsyncAgent used without a service: inference_stream of an agent      *)
(* constructed with status_callback=None or with a callback of the caller. *)
(***************************************************************************)
\* inference_stream, lines 213-216 and 345-350: the "processing" notification
\* raises inside the try block, the handler yields the error event and the
\* generator returns before list_tools and before the user message
StreamStartNotifyRaises ==
    /\ agent = "MCPAsyncAgent"
    /\ pc = "idle"
    /\ NotifyRaises(status_callback)
    /\ Len(history) <= MaxStartLen
    /\ \E m \in 0 .. MaxIter :
          req' = [ReqIdle EXCEPT !.max_iterations = m]
    /\ events' = <<ErrorEvent(SinkError)>>
    /\ forwarded' = <<ErrorEvent(SinkError)>>
    /\ obs' = ObsIdle
    /\ pc' = AfterError
    /\ response' = BuildResponseFromEvents(events')
    /\ UNCHANGED <<fix, sessions, system_prompt, status_callback, agent, history>>

InitSink ==
    /\ fix = FixIdle
    /\ agent = "MCPAsyncAgent"
    /\ sessions = NoSessions
    /\ system_prompt = SystemPrompt
    /\ status_callback \in StatusCallbacks \ {"bridge"}
    /\ history = <<SystemMessage>>
    /\ pc = "idle"
    /\ req = ReqIdle
    /\ events = <<>>
    /\ forwarded = <<>>
    /\ response = NoResponse
    /\ obs = ObsIdle

NextSink ==
    \/ StreamStart
    \/ StreamStartNotifyRaises
    \/ StreamListed
    \/ StreamModelFails
    \/ StreamFinalAnswer
    \/ StreamToolCalls
    \/ StreamToolsExecuted
    \/ StreamToolsDone
    \/ StreamToolsDenied
    \/ StreamForcedFinal
    \/ ClearHistory

SpecSink == InitSink /\ [][NextSink]_vars

(***************************************************************************)
(* Properties of the orchestration loop (under Spec).                      *)
(***************************************************************************)
Terminal(event) == event.type \in {"done", "error"}

\* the request has come to its end: the entry point has returned, the
\* generator has finished or has been cancelled
RequestOver == pc = "idle" /\ (obs.model_calls > 0 \/ obs.cancelled)

\* a sequence of events that ends with its only terminal event
EndsOnce(seq) ==
    /\ seq # <<>>
    /\ Terminal(seq[Len(seq)])
    /\ \A i \in 1 .. Len(seq) - 1 : ~Terminal(seq[i])

\* the denial of this round goes up to the caller
Propagates(outcomes) ==
    agent = "MCPAsyncAgent" /\ \E i \in DOMAIN outcomes : outcomes[i] = "denied"

\* this step ends the execution of a round's tool calls by their results
RoundCompleted ==
    /\ obs'.round # obs.round
    /\ obs'.round.outcomes # <<>>
    /\ ~Propagates(obs'.round.outcomes)

\* seq ends with part
EndsWith(seq, part) ==
    /\ Len(part) <= Len(seq)
    /\ SubSeq(seq, Len(seq) - Len(part) + 1, Len(seq)) = part

\* C1: whatever max_iterations and whatever the providers do, a request makes
\* at most max_iterations + 1 model calls, and once it has made that many it
\* is over: no round follows (synchronous and streaming loop).
C1_AtMostMaxIterationsPlusOneCalls ==
    /\ obs.model_calls <= req.max_iterations + 1
    /\ obs.model_calls = req.max_iterations + 1 => pc = "idle"
    /\ pc = "tools" => obs.model_calls <= req.max_iterations

C1_Witness ==
    /\ pc = "idle"
    /\ req.max_iterations = MaxIter
    /\ req.round_count = MaxIter
    /\ obs.forced
    /\ obs.model_calls = MaxIter + 1

\* C2: the events of inference_stream and the events WebService forwards hold
\* no terminal event while the request runs; when it is over they end with
\* exactly one terminal event, done or error, which is their last event (for
\* the forwarded sequence also when the per-event timeout fired).
C2_ExactlyOneTerminalEvent ==
    agent = "MCPAsyncAgent" =>
        /\ pc # "idle" => /\ \A i \in DOMAIN events : ~Terminal(events[i])
                          /\ \A i \in DOMAIN forwarded : ~Terminal(forwarded[i])
        /\ RequestOver => /\ EndsOnce(forwarded)
                          /\ ~obs.cancelled => EndsOnce(events) /\ forwarded = events

C2_Witness ==
    /\ agent = "MCPAsyncAgent"
    /\ RequestOver
    /\ obs.cancelled
    /\ Len(forwarded) >= 3
    /\ forwarded[Len(forwarded)] = ErrorEvent(TimeoutText)
    /\ forwarded[1].type = "tool_call_start"

\* C3: once the tool provider has denied an invocation, the request is over
\* with a failure, Memory is what it was before the round's assistant
\* message (until it is cleared), and no model call or dispatch follows.
C3_DenialRollsBackAndEnds ==
    obs.denial.seen =>
        /\ pc = "idle"
        /\ history \in {obs.denial.base, <<SystemMessage>>}
        /\ IF agent = "MCPBaseAgent" THEN response.status = "failed"
           ELSE events # <<>> /\ events[Len(events)].type = "error"
        /\ obs.model_calls = obs.denial.model_calls
        /\ Len(obs.dispatches) = obs.denial.dispatches

\* C4: a round in which the provider failed an invocation without denying it
\* leaves, for that call, a role=tool message whose content carries the
\* failure text, and the loop is at its next model call.
C4_FailureRecordedLoopProceeds ==
    [][RoundCompleted =>
         LET round == obs'.round
         IN  \A i \in DOMAIN round.outcomes :
                round.outcomes[i] = "fail" =>
                    /\ pc' = "round"
                    /\ Len(history') = Len(round.base) + 1 + Len(round.calls)
                    /\ history'[Len(round.base) + 1 + i].role = "tool"
                    /\ EndsWith(history'[Len(round.base) + 1 + i].content, ServerError)
                    /\ agent = "MCPAsyncAgent" =>
                          /\ ~events'[Len(events) + 2 * i].success
                          /\ EndsWith(events'[Len(events) + 2 * i].result, ServerError)]_vars

C4_Witness ==
    /\ pc = "round"
    /\ req.round_count = 1
    /\ \E i \in DOMAIN obs.round.outcomes :
          /\ obs.round.outcomes[i] = "fail"
          /\ history[Len(obs.round.base) + 1 + i].content
                = <<"Tool execution failed: ">> \o ServerError

\* C5: a round with n >= 1 proposed calls adds n + 1 messages to Memory: the
\* assistant message with the calls, then one role=tool message per call in
\* the order of the calls, each naming its call's id, whatever became of
\* each call; the tool messages come after the assistant message.
C5_RoundAddsAssistantThenToolMessages ==
    [][/\ pc' = "tools" => history' = Append(obs'.round.base, ToolCallMessage(req'.tool_calls))
       /\ RoundCompleted =>
            LET round == obs'.round
                n == Len(round.calls)
                k == Len(round.base)
            IN  /\ n >= 1
                /\ Len(history') = k + n + 1
                /\ SubSeq(history', 1, k) = round.base
                /\ round.base = IF pc = "emitting" THEN SubSeq(history, 1, k) ELSE history
                /\ history'[k + 1] = ToolCallMessage(round.calls)
                /\ \A i \in 1 .. n :
                      /\ history'[k + 1 + i].role = "tool"
                      /\ history'[k + 1 + i].tool_call_id = round.calls[i].id]_vars

C5_Witness ==
    /\ pc = "round"
    /\ Len(obs.round.calls) = 3
    /\ obs.round.outcomes[1] = "fail"
    /\ obs.round.outcomes[2] = "none"
    /\ obs.round.calls[2].name = "nosuch"
    /\ obs.round.outcomes[3] = "none"
    /\ obs.round.calls[3].name = "search"
    /\ Len(history) = Len(obs.round.base) + 4
    /\ history[Len(history)].tool_call_id = "call_3"

\* the final answer of the request this step ends, when it ends with one
AnswerGiven ==
    IF agent = "MCPBaseAgent" THEN response'.status = "success"
    ELSE events' # <<>> /\ events'[Len(events')].type = "done"

\* C6: when all max_iterations rounds carried tool calls, the forced call is
\* the one model call that follows them and has no tools; its content is
\* appended as a role=assistant message and is the answer (returned with
\* iterations_used = max_iterations, or chunked into content events and done).
C6_ForcedFinalAnswer ==
    [][(obs'.forced /\ ~obs.forced) =>
         /\ req.round_count = req.max_iterations
         /\ obs.model_calls = req.max_iterations
         /\ obs'.model_calls = req.max_iterations + 1
         /\ ~obs'.with_tools
         /\ (AnswerGiven /\ ~obs'.cancelled) =>
               LET last == history'[Len(history')]
               IN  /\ pc' = "idle"
                   /\ last.role = "assistant"
                   /\ last.tool_calls = NoCalls
                   /\ Len(history') > Len(history)
                   /\ IF agent = "MCPBaseAgent"
                      THEN /\ response'.answer = last.content
                           /\ response'.iterations_used = req.max_iterations
                      ELSE /\ ContentOf(events') = last.content
                           /\ \A i \in 1 .. Len(events') - 1 :
                                 events'[i].type = "content" =>
                                    events'[i + 1].type \in {"content", "done"}]_vars

C6_Witness ==
    /\ agent = "MCPBaseAgent"
    /\ pc = "idle"
    /\ obs.forced
    /\ req.max_iterations = MaxIter
    /\ response.status = "success"
    /\ response.iterations_used = MaxIter
    /\ Len(response.tools_called) = MaxCalls
    /\ response.answer = AnswerOf(2 * chunk_size + 1)
    /\ history[Len(history)] = AssistantMessage(response.answer)

(***************************************************************************)
(* Properties of fix_tool_args (under SpecFix).                            *)
(***************************************************************************)
FixSchema == fix.tools["srv:lookup"].input_schema
FixKnown == fix.tool_name \in DOMAIN fix.tools

\* similarity(k, p) >= 0.2, stated on the ratio 2M/T itself
Similar(k, p) == 5 * Ratio(k, p)[1] >= Ratio(k, p)[2]

\* C7: when every required parameter is already a key of the arguments, when
\* the tool declares no parameters, and when the tool is not in the registry,
\* fix_tool_args returns the arguments unchanged, undeclared keys included.
C7_IdentityWhenSatisfied ==
    (/\ fix.pc = "returned"
     /\ \/ ~FixKnown
        \/ FixSchema.properties = <<>>
        \/ \A r \in Range(FixSchema.required) : HasKey(fix.tool_args, r))
    => fix.result = fix.tool_args

C7_Witness ==
    /\ fix.pc = "returned"
    /\ FixKnown
    /\ FixSchema.required # <<>>
    /\ Len(FixSchema.properties) > Len(FixSchema.required)
    /\ \A r \in Range(FixSchema.required) : HasKey(fix.tool_args, r)
    /\ \E i \in DOMAIN fix.tool_args : fix.tool_args[i][1] \notin Range(FixSchema.properties)
    /\ fix.result = fix.tool_args

\* C8: with exactly one required parameter r and exactly one argument k (k # r)
\* of value v, fix_tool_args returns {r: v} if similarity(k, r) >= 0.2 and the
\* arguments unchanged otherwise, whatever optional parameters are declared.
C8_SingleParamRename ==
    (/\ fix.pc = "returned"
     /\ FixKnown
     /\ Len(FixSchema.required) = 1
     /\ Len(fix.tool_args) = 1
     /\ fix.tool_args[1][1] # FixSchema.required[1])
    => LET r == FixSchema.required[1]
           k == fix.tool_args[1][1]
           v == fix.tool_args[1][2]
       IN  /\ Similar(k, r) => fix.result = <<<<r, v>>>>
           /\ ~Similar(k, r) => fix.result = fix.tool_args
           /\ fix.result = <<<<r, v>>>> <=> Similar(k, r)

C8_Witness ==
    /\ fix.pc = "returned"
    /\ FixKnown
    /\ Len(FixSchema.required) = 1
    /\ Len(FixSchema.properties) = 2
    /\ Len(fix.tool_args) = 1
    /\ fix.tool_args[1][1] # FixSchema.required[1]
    /\ Ratio(fix.tool_args[1][1], FixSchema.required[1]) = <<2, 10>>
    /\ fix.result = <<<<FixSchema.required[1], fix.tool_args[1][2]>>>>

\* C9: the assignments stage 3 makes are a partial one-to-one matching of loose
\* keys to declared parameters no key matched exactly, each of similarity
\* >= 0.2, taken in descending score order, and every above-threshold pair
\* left out lost its key or its parameter to a taken pair scoring at least as
\* high.
C9_GreedyMatching ==
    (fix.pc = "returned" /\ FixKnown)
    => LET ms == fix.matches
           declared == Range(FixSchema.properties)
           keys == Range(DictKeys(fix.tool_args))
           loose == keys \ declared
           unmatched == declared \ keys
           candidates == {c \in loose \X unmatched : Similar(c[1], c[2])}
       IN  /\ \A i \in DOMAIN ms :
                 /\ <<ms[i].input_key, ms[i].expected_param>> \in candidates
                 /\ ms[i].sim = Ratio(ms[i].input_key, ms[i].expected_param)
           /\ \A i, j \in DOMAIN ms :
                 i # j => /\ ms[i].input_key # ms[j].input_key
                          /\ ms[i].expected_param # ms[j].expected_param
           /\ \A i, j \in DOMAIN ms : i < j => RatioGE(ms[i].sim, ms[j].sim)
           /\ ReachesStage3(fix.tools, fix.tool_args, fix.tool_name)
              => \A c \in candidates :
                    \/ \E i \in DOMAIN ms : <<ms[i].input_key, ms[i].expected_param>> = c
                    \/ \E i \in DOMAIN ms :
                          /\ ms[i].input_key = c[1] \/ ms[i].expected_param = c[2]
                          /\ RatioGE(ms[i].sim, Ratio(c[1], c[2]))

C9_Witness ==
    /\ fix.pc = "returned"
    /\ Len(fix.matches) = 2
    /\ \E k \in Range(DictKeys(fix.tool_args)) \ Range(FixSchema.properties) :
          \E p \in Range(FixSchema.properties) \ Range(DictKeys(fix.tool_args)) :
             /\ Similar(k, p)
             /\ \A i \in DOMAIN fix.matches :
                   <<fix.matches[i].input_key, fix.matches[i].expected_param>> # <<k, p>>
    /\ fix.result # fix.tool_args

\* C10: fix_tool_args returns either a mapping holding every required
\* parameter of the tool or exactly the arguments it was given, never a
\* partial repair.
C10_CompleteOrOriginal ==
    fix.pc = "returned"
    => \/ fix.result = fix.tool_args
       \/ /\ FixKnown
          /\ \A r \in Range(FixSchema.required) : HasKey(fix.result, r)

C10_Witness ==
    /\ fix.pc = "returned"
    /\ fix.matches # <<>>
    /\ fix.result = fix.tool_args
    /\ \E r \in Range(FixSchema.required) : ~HasKey(fix.result, r)

(***************************************************************************)
(* Properties of the event stream (under Spec).                            *)
(***************************************************************************)
\* the tool events of a sequence come in pairs, start then result of the
\* same call, and none comes once content has begun
PairedToolEvents(seq) ==
    \A i \in DOMAIN seq :
        /\ seq[i].type = "tool_call_start" =>
              /\ i < Len(seq)
              /\ seq[i + 1] = [seq[i] EXCEPT !.type = "tool_result"]
        /\ seq[i].type = "tool_result" =>
              /\ i > 1
              /\ seq[i - 1].type = "tool_call_start"
        /\ seq[i].type = "content" =>
              \A j \in i + 1 .. Len(seq) :
                  seq[j].type \notin {"tool_call_start", "tool_result"}

\* C11: in the events of inference_stream and in the forwarded events,
\* tool_call_start and tool_result alternate from a tool_call_start on, each
\* tool_result directly follows the tool_call_start of its call with the same
\* name and arguments, and no tool event follows a content event.
C11_ToolEventsPairedBeforeContent ==
    agent = "MCPAsyncAgent" => PairedToolEvents(events) /\ PairedToolEvents(forwarded)

C11_Witness ==
    /\ agent = "MCPAsyncAgent"
    /\ Len(events) = 2 * MaxCalls + 4
    /\ events[1].type = "tool_call_start"
    /\ events[2 * MaxCalls].type = "tool_result"
    /\ events[2 * MaxCalls + 1].type = "content"
    /\ events[Len(events)].type = "done"
    /\ req.round_count = 2

\* the events of a type in a sequence
EventsOfType(seq, type) == {i \in DOMAIN seq : seq[i].type = type}

\* C12: in the streaming loop every invocation of the tool provider has its
\* tool_call_start event out before it is made, and the tool_result event of
\* the invocation before it is out before the next one is made.
C12_StartBeforeDispatch ==
    agent = "MCPAsyncAgent" =>
        /\ Len(obs.dispatches) <= Cardinality(EventsOfType(events, "tool_call_start"))
        /\ Len(obs.dispatches) <= Cardinality(EventsOfType(events, "tool_result")) + 1

\* this step of the streaming loop yields done
StreamAnswers ==
    /\ agent = "MCPAsyncAgent"
    /\ events' # events
    /\ events' # <<>>
    /\ events'[Len(events')].type = "done"

\* C13: when the streaming loop ends with its answer, in a round or by the
\* forced call, the chunks of the content events joined in order are the
\* content of the assistant message just appended (and the answer inference
\* returns); each chunk has 1 to 20 characters and all but the last have 20,
\* so an empty answer has no content event; then comes the one done event.
C13_ContentChunksSpellTheAnswer ==
    [][StreamAnswers =>
         LET last == history'[Len(history')]
             chunks == EventsOfType(events', "content")
         IN  /\ Len(history') = Len(history) + 1
             /\ last.role = "assistant"
             /\ ContentOf(events') = last.content
             /\ response'.answer = last.content
             /\ \A i \in chunks :
                   /\ Len(events'[i].text) >= 1
                   /\ Len(events'[i].text) <= 20
                   /\ events'[i + 1].type \in {"content", "done"}
                   /\ events'[i + 1].type = "content" => Len(events'[i].text) = 20
             /\ last.content = <<>> => chunks = {}
             /\ Cardinality(EventsOfType(events', "done")) = 1]_vars

C13_Witness ==
    /\ agent = "MCPAsyncAgent"
    /\ pc = "idle"
    /\ Len(events) = 6
    /\ events[1].type = "tool_call_start"
    /\ Len(events[3].text) = 20
    /\ Len(events[4].text) = 20
    /\ Len(events[5].text) = 1
    /\ events[6].type = "done"
    /\ ContentOf(events) = AnswerOf(41)
    /\ history[Len(history)] = AssistantMessage(AnswerOf(41))

(***************************************************************************)
(* Properties of Memory (under Spec).                                      *)
(***************************************************************************)
\* C14: whatever requests, append_history calls, rollbacks and clear_history
\* calls an agent has been through, its Memory is not empty and starts with
\* the role=system message.
C14_SystemMessageFirst ==
    /\ history # <<>>
    /\ history[1].role = "system"

C14_Witness ==
    /\ agent = "MCPAsyncAgent"
    /\ obs.denial.seen
    /\ pc = "idle"
    /\ history = ClearedHistory
    /\ events # <<>>
    /\ events[Len(events)] = ErrorEvent(DeniedError)

\* C15 (under SpecRollback): the rollback takes away one entry, the last
\* one, exactly when the last entry has role=assistant; on a Memory that ends
\* with another role, or is empty, it changes nothing.
C15_RemoveLastOnlyAssistant ==
    pc = "idle" =>
        LET before == obs.round.base
        IN  IF before # <<>> /\ before[Len(before)].role = "assistant"
            THEN /\ Len(history) = Len(before) - 1
                 /\ history = SubSeq(before, 1, Len(before) - 1)
            ELSE history = before

C15_Witness ==
    /\ pc = "idle"
    /\ events # <<>>
    /\ Len(obs.round.base) = MaxMemLen
    /\ obs.round.base[MaxMemLen].role = "assistant"
    /\ obs.round.base[MaxMemLen - 1].role = "assistant"
    /\ Len(history) = MaxMemLen - 1

\* before is a prefix of after
IsPrefix(before, after) ==
    /\ Len(before) <= Len(after)
    /\ SubSeq(after, 1, Len(before)) = before

\* this step is clear_history
ClearStep == pc = "idle" /\ pc' = "idle" /\ history' = ClearedHistory

\* this step is the rollback of the streaming loop after a denial
DenialStep ==
    /\ agent = "MCPAsyncAgent"
    /\ pc = "tools"
    /\ obs'.denial.seen
    /\ ~obs.denial.seen

Writing(s) == sessions[s].pc \in {"round", "tools"}

\* C17: between the user message of a request and its terminal event nobody
\* else adds to or removes from the Memory it writes, and the rollback of a
\* request takes away the assistant message that request's round appended.
C17_SingleWriter ==
    [][\A s \in Sessions :
          /\ (Writing(s) /\ sessions'[s] = sessions[s]) => history' = history
          /\ (sessions[s].pc = "tools" /\ sessions'[s].terminal = "error"
                /\ history' # history) =>
                history[Len(history)] = ToolCallMessage(sessions[s].tool_calls)]_vars

\* the model call of this step runs into llm_timeout: asyncio.TimeoutError
\* has the empty text
ModelCallTimesOut ==
    /\ agent = "MCPAsyncAgent"
    /\ pc = "round"
    /\ obs'.model_calls = obs.model_calls + 1
    /\ events' = Append(events, ErrorEvent(<<>>))

\* the streaming request ended by a model-call timeout and no request has
\* started since
TimedOut ==
    /\ agent = "MCPAsyncAgent"
    /\ pc = "idle"
    /\ events # <<>>
    /\ events[Len(events)] = ErrorEvent(<<>>)

\* C18: a model call that times out in a round of a streaming request leaves
\* Memory as it was when the call started, ends the stream with its only
\* terminal event, an error, and is followed by no model call and no tool
\* dispatch of that request.
C18_ModelTimeoutEndsRequest ==
    [][/\ ModelCallTimesOut =>
            /\ history' = history
            /\ EndsOnce(events')
            /\ events'[Len(events')].type = "error"
            /\ pc' = "idle"
       /\ TimedOut =>
            /\ obs'.model_calls <= obs.model_calls
            /\ Len(obs'.dispatches) <= Len(obs.dispatches)]_vars

C18_Witness ==
    /\ TimedOut
    /\ ~obs.cancelled
    /\ obs.model_calls = 2
    /\ Len(obs.dispatches) >= 1
    /\ history[Len(history)].role = "tool"

\* the loop of the request that is over ended with an error: the stream's
\* terminal event is an error (streaming agent behind the synchronous entry
\* points)
EndedWithError ==
    /\ agent = "MCPAsyncAgent"
    /\ RequestOver
    /\ forwarded # <<>>
    /\ forwarded[Len(forwarded)].type = "error"

\* C19: a synchronous entry point answers a request that ended in an
\* anticipated failure with a failure status and the error; it never answers
\* "success" for a request whose loop ended with an error.
C19_FailureStatusOnError ==
    /\ EndedWithError =>
          /\ response.status = "failed"
          /\ response.error = forwarded[Len(forwarded)].text
    /\ (agent = "MCPBaseAgent" /\ response.status = "failed") => response.error # <<>>

\* a synchronous call has returned a successful result: MCPBaseAgent.inference
\* with status "success", MCPAsyncAgent.inference over a stream that ended
\* with done
SuccessfulCall ==
    /\ RequestOver
    /\ ~obs.cancelled
    /\ IF agent = "MCPBaseAgent" THEN response.status = "success"
       ELSE events # <<>> /\ events[Len(events)].type = "done"

\* the rounds of model calls the request ran
RoundsRun == IF obs.forced THEN req.max_iterations ELSE obs.model_calls

\* C20: a successful synchronous call reports iterations_used as the number
\* of model-call rounds run (k for a final answer in round k, max_iterations
\* after a forced summary) and tools_called with one entry per dispatched
\* call, in dispatch order.
C20_IterationsAndToolsReported ==
    SuccessfulCall =>
        /\ response.iterations_used = RoundsRun
        /\ Len(response.tools_called) = Len(obs.dispatches)
        /\ \A i \in DOMAIN obs.dispatches :
              response.tools_called[i] = obs.dispatches[i].tool_name

\* C21: the messages handed to the forced final model call end with the
\* instruction, written by the agent, to answer from the information gathered
\* so far (synchronous and streaming loop).
C21_FinalCallEndsWithInstruction ==
    obs.forced =>
        /\ obs.final_messages # <<>>
        /\ obs.final_messages[Len(obs.final_messages)].content = LimitReachedText

\* the roles Memory accepts
AllowedRoles == {"system", "user", "assistant", "tool"}

\* the episodes ahead of the first one whose role Memory does not accept
RECURSIVE AcceptedPrefix(_)
AcceptedPrefix(episodes) ==
    IF episodes = <<>> \/ Head(episodes).role \notin AllowedRoles THEN <<>>
    ELSE <<Head(episodes)>> \o AcceptedPrefix(Tail(episodes))

\* C22 (under SpecAppend): appending messages with the roles system, user,
\* assistant or tool puts them at the end of Memory in list order; a message
\* with another role, or none, fails with InvalidRole and is not added.
C22_AppendChecksRole ==
    pc = "idle" =>
        LET episodes == req.history_episodes
        IN  /\ history = obs.round.base \o AcceptedPrefix(episodes)
            /\ AcceptedPrefix(episodes) # episodes => response.status = "failed"

\* this step is a clear that changes Memory: at rest, Memory becomes a single
\* entry other than it was (an append never shortens Memory nor touches its
\* first entry)
Clears ==
    /\ pc = "idle"
    /\ pc' = "idle"
    /\ Len(history') = 1
    /\ history' # history

\* C23 (under SpecCli): whatever requests, appends and configuration updates
\* came before, clear_history leaves exactly one message in Memory, the system
\* message the Memory was created with.
C23_ClearLeavesOriginalSystemMessage ==
    [][Clears => history' = <<SystemMessage>>]_vars

\* C24 (under SpecSink): the status sink has no part in the outcome of a
\* request. The model, the tool provider and the caller behave the same
\* whatever sink is attached, and without a sink no event reports a failure
\* of the sink; so with any sink, a raising one included, no request may end
\* with the sink's failure as its error event.
C24_SinkCannotEndTheRequest ==
    \A i \in DOMAIN events : events[i] # ErrorEvent(SinkError)

\* the assistant message at position i of the entries, with its tool calls,
\* has behind it one role=tool message per call, in the order of the calls
ToolResultsFollow(entries, i) ==
    LET calls == entries[i].tool_calls
    IN  /\ i + Len(calls) <= Len(entries)
        /\ \A j \in DOMAIN calls :
              /\ entries[i + j].role = "tool"
              /\ entries[i + j].tool_call_id = calls[j].id
        /\ i + Len(calls) < Len(entries) => entries[i + Len(calls) + 1].role # "tool"

\* C25: when a request has ended, for whatever reason, every assistant
\* message of Memory that carries tool calls has its tool results right
\* behind it, one role=tool message per call.
C25_NoToolCallsWithoutResults ==
    RequestOver =>
        \A i \in DOMAIN history :
            (history[i].role = "assistant" /\ history[i].tool_calls # NoCalls) =>
                ToolResultsFollow(history, i)

(***************************************************************************)
(* Further properties of fix_tool_args (under SpecFix).                    *)
(***************************************************************************)
\* the item is in the returned mapping as it was proposed
KeptAsProposed(item) ==
    \E i \in DOMAIN fix.result : fix.result[i] = item

\* C26: a proposed key that is the name of a declared parameter, required or
\* optional, is in every returned mapping with its original value, whichever
\* path fix_tool_args takes.
C26_ExactKeysKept ==
    (fix.pc = "returned" /\ FixKnown) =>
        \A i \in DOMAIN fix.tool_args :
            fix.tool_args[i][1] \in Range(FixSchema.properties) =>
                KeptAsProposed(fix.tool_args[i])

\* where a key stands among the proposed arguments, a parameter in the schema
PositionIn(seq, x) == CHOOSE i \in DOMAIN seq : seq[i] = x

\* the pair (k1, p1) is generated ahead of (k2, p2) by the nested loops of
\* lines 139-145: keys in argument order, for each key the parameters in
\* schema order
FirstSeen(k1, p1, k2, p2) ==
    LET keys == DictKeys(fix.tool_args)
        params == FixSchema.properties
    IN  \/ PositionIn(keys, k1) < PositionIn(keys, k2)
        \/ /\ k1 = k2
           /\ PositionIn(params, p1) < PositionIn(params, p2)

\* the taken match m is handled ahead of the pair (k, p): it scores higher,
\* or the same and is first seen
HandledAhead(m, k, p) ==
    \/ RatioGT(m.sim, Ratio(k, p))
    \/ /\ RatioGE(m.sim, Ratio(k, p))
       /\ RatioGE(Ratio(k, p), m.sim)
       /\ FirstSeen(m.input_key, m.expected_param, k, p)

\* C27: the greedy assignment handles the candidate pairs by descending score
\* and, among pairs of equal score, in the order they were generated (keys
\* in argument order, parameters in schema order): every pair left out lost
\* its key or its parameter to a taken pair handled ahead of it.
C27_TiesFirstSeenWins ==
    (fix.pc = "returned" /\ ReachesStage3(fix.tools, fix.tool_args, fix.tool_name))
    => LET ms == fix.matches
           declared == Range(FixSchema.properties)
           keys == Range(DictKeys(fix.tool_args))
           candidates == {c \in (keys \ declared) \X (declared \ keys) :
                             Similar(c[1], c[2])}
       IN  /\ \A i, j \in DOMAIN ms :
                 i < j => HandledAhead(ms[i], ms[j].input_key, ms[j].expected_param)
           /\ \A c \in candidates :
                 \/ \E i \in DOMAIN ms : <<ms[i].input_key, ms[i].expected_param>> = c
                 \/ \E i \in DOMAIN ms :
                       /\ ms[i].input_key = c[1] \/ ms[i].expected_param = c[2]
                       /\ HandledAhead(ms[i], c[1], c[2])

\* two keys score the same against the one parameter left: the key proposed
\* first gets it
C27_Witness ==
    /\ fix.pc = "returned"
    /\ Len(fix.tool_args) = 2
    /\ Len(fix.matches) = 1
    /\ fix.matches[1].input_key = fix.tool_args[1][1]
    /\ fix.tool_args[2][1] \notin Range(FixSchema.properties)
    /\ Ratio(fix.tool_args[2][1], fix.matches[1].expected_param) = fix.matches[1].sim
    /\ fix.result = <<<<fix.matches[1].expected_param, fix.tool_args[1][2]>>>>

\* C28: fix_tool_args is idempotent: applied to the mapping it returned, with
\* the same registry and tool name, it returns that mapping.
C28_Idempotent ==
    fix.pc = "returned" =>
        fix_tool_args(fix.tools, fix.result, fix.tool_name) = fix.result

\* a repaired mapping with an exact key, a renamed key and a third party to
\* lose: the second application changes nothing
C28_Witness ==
    /\ fix.pc = "returned"
    /\ fix.result # fix.tool_args
    /\ fix.matches # <<>>
    /\ Len(fix.result) = 2
    /\ fix_tool_args(fix.tools, fix.result, fix.tool_name) = fix.result

(***************************************************************************)
(* Calls to tools the registry does not hold (under Spec).                 *)
(***************************************************************************)
\* the calls of the list that reach the tool provider
DispatchedAmong(tool_calls, available_tools) ==
    {i \in DOMAIN tool_calls : Dispatched(tool_calls[i], available_tools)}

\* C29: in the synchronous loop, a proposed call naming a tool that is not in
\* the registry of the request is not invoked on the provider; a role=tool
\* message with the tool-not-found text and the call's id is recorded at the
\* call's place, the call is listed in tools_called under the name proposed,
\* the other calls of the round are handled and the loop is at its next
\* model call.
C29_UnknownToolRecordedNotInvoked ==
    [][(agent = "MCPBaseAgent" /\ RoundCompleted) =>
         LET round == obs'.round
             k == Len(round.base)
             n == Len(round.calls)
         IN  /\ Len(obs'.dispatches)
                   = Len(obs.dispatches)
                     + Cardinality(DispatchedAmong(round.calls, req.tools))
             /\ Len(history') = k + 1 + n
             /\ Len(req'.tools_used) = Len(req.tools_used) + n
             /\ \A i \in DOMAIN round.calls :
                   FindTool(req.tools, round.calls[i].name) = "" =>
                       /\ i \notin DispatchedAmong(round.calls, req.tools)
                       /\ round.outcomes[i] = "none"
                       /\ history'[k + 1 + i]
                             = Message("tool",
                                       <<"Error: Tool '", round.calls[i].name, "' not found">>,
                                       round.calls[i].id, NoCalls)
                       /\ req'.tools_used[Len(req.tools_used) + i] = round.calls[i].name
                       /\ pc' = "round"]_vars

\* an unknown tool ahead of a call that is invoked, in a request that goes on
\* to its answer and reports both calls
C29_Witness ==
    /\ agent = "MCPBaseAgent"
    /\ pc = "idle"
    /\ response.status = "success"
    /\ req.tools = SearchTools
    /\ Len(obs.round.calls) = 2
    /\ obs.round.calls[1].name = "nosuch"
    /\ obs.round.outcomes = <<"none", "ok">>
    /\ Len(obs.dispatches) = 1
    /\ response.tools_called = <<"nosuch", "srv:search">>

(***************************************************************************)
(* The status notifications of the service (under Spec).                   *)
(***************************************************************************)
\* C30: process_request_stream tells the status sink "completed" only for a
\* request whose forwarded stream ended with done; when the stream holds an
\* error event, whoever produced it, the sink is never told "completed".
C30_CompletedOnlyAfterDone ==
    (agent = "MCPAsyncAgent" /\ \E i \in DOMAIN obs.notified : obs.notified[i] = "completed")
    => /\ forwarded # <<>>
       /\ forwarded[Len(forwarded)].type = "done"
       /\ \A i \in DOMAIN forwarded : forwarded[i].type # "error"

====
